---- MODULE Spec2Model ----
(***************************************************************************)
(* The streaming pretty printer of src/src/core.rs (Printer), with the     *)
(* helper entry points of src/src/helper.rs.                               *)
(*                                                                         *)
(* Program state: line_width, position, indent, dq, renderer, remaining,   *)
(* render_stack, pending_indent (the fields of Printer).  The sink         *)
(* (`renderer`) is a Render of src/src/render.rs; what was written is kept *)
(* as the sequence of writes, each write tagged with the call that made    *)
(* it.  `sink` is the state of the writer behind the sink: the String sink *)
(* never fails (fail_at = 0), an Io sink fails from its fail_at-th write   *)
(* on.                                                                     *)
(*                                                                         *)
(* History variables (not read by any modelled code): status, nops,        *)
(* ngroups, ntexts, unmatched, full, deltas, last.  Fields gid, cons,      *)
(* pruned, owner, frame, infit, want of tokens, frames and writes are      *)
(* history too.                                                            *)
(***************************************************************************)
EXTENDS Integers, Sequences, FiniteSets, TLC

\* Printer::MAX_WIDTH
MAX_WIDTH == 65536

\* ---- bounds of the exploration ----
\* number of scan_* calls in a run of Spec (finish is not counted)
MaxOps == 3
\* number of scan_* calls in a run of SpecDeep
MaxDeepOps == 5
\* small line widths tried besides MAX_WIDTH
MaxLineWidth == 2
\* number of scan_* calls in a run of SpecIo
MaxIoOps == 4
\* the latest write from which the sink of SpecIo starts to fail
MaxFailAt == 3

\* inputs of Spec
LineWidths == (1 .. MaxLineWidth) \cup {MAX_WIDTH}
\* widths Printer::new rejects
BadLineWidths == {0, MAX_WIDTH + 1}
TextWidths == {0, 1, 2}
BreakSizes == {0, 1, MAX_WIDTH}
Deltas == {-1, 0, 1}
\* inputs of SpecDeep
DeepTextWidths == {1}
DeepBreakSizes == {1, MAX_WIDTH}
DeepBreakDeltas == {0, 1}
DeepBeginDeltas == {1}
\* the `consistent` helper.rs asks for (it reaches no field of the printer)
DeepConsistent == {TRUE}

VARIABLES line_width, position, indent, dq, renderer, remaining,
          render_stack, pending_indent, sink,
          status, nops, ngroups, ntexts, unmatched, full, deltas, last

vars == <<line_width, position, indent, dq, renderer, remaining,
          render_stack, pending_indent, sink,
          status, nops, ngroups, ntexts, unmatched, full, deltas, last>>

\* ---------------------------------------------------------------------
\* Data

\* (Token, usize) entries of OutGroup.tokens; `owner` is the group that was
\* innermost open when the token was scanned (0: none), `want` the sum of the
\* indent deltas of the groups open at a scan_break plus its own delta.
TextTok(id, width, owner) ==
    [k |-> "Text", id |-> id, indent |-> 0, width |-> width,
     tokens |-> <<>>, gid |-> 0, cons |-> FALSE, owner |-> owner, want |-> 0]

BreakTok(ind, width, owner, want) ==
    [k |-> "Break", id |-> 0, indent |-> ind, width |-> width,
     tokens |-> <<>>, gid |-> 0, cons |-> FALSE, owner |-> owner, want |-> want]

GroupTok(grp, width, owner) ==
    [k |-> "Group", id |-> 0, indent |-> 0, width |-> width,
     tokens |-> grp.tokens, gid |-> grp.gid, cons |-> grp.cons, owner |-> owner,
     want |-> 0]

\* an entry of dq: (Position, OutGroup)
DqEntry(s, gid, cons) == [s |-> s, tokens |-> <<>>, gid |-> gid, cons |-> cons]

\* RenderFrame::Fits
FitsFrame(h) ==
    [tag |-> "Fits", consistent |-> FALSE, gid |-> h.gid, cons |-> h.cons,
     pruned |-> h.pruned, width |-> h.width, rem0 |-> h.rem0]

\* RenderFrame::Break { consistent }
BreakFrame(consistent, h) ==
    [tag |-> "Break", consistent |-> consistent, gid |-> h.gid, cons |-> h.cons,
     pruned |-> h.pruned, width |-> h.width, rem0 |-> h.rem0]

\* history of a frame: its group, the `consistent` the group was opened with,
\* whether prune pushed it, and the width and remaining render_begin compared
Hist(gid, cons, pruned, width, rem0) ==
    [gid |-> gid, cons |-> cons, pruned |-> pruned, width |-> width, rem0 |-> rem0]

\* `.unwrap_or(RenderFrame::Break { consistent: false })` of render_break
NoFrame == BreakFrame(FALSE, Hist(0, FALSE, FALSE, 0, 0))

\* usize::saturating_sub
saturating_sub(a, b) == IF a >= b THEN a - b ELSE 0

Last(s) == s[Len(s)]
Front(s) == SubSeq(s, 1, Len(s) - 1)

\* writes to the sink
WText(tok) ==
    [k |-> "text", id |-> tok.id, n |-> tok.width, indent |-> 0, owner |-> tok.owner,
     frame |-> NoFrame, infit |-> FALSE, rem |-> 0, want |-> 0]
WIndent(n) ==
    [k |-> "indent", id |-> 0, n |-> n, indent |-> 0, owner |-> 0,
     frame |-> NoFrame, infit |-> FALSE, rem |-> 0, want |-> 0]
WSpaces(tok, frame, infit, rem) ==
    [k |-> "spaces", id |-> 0, n |-> tok.width, indent |-> tok.indent, owner |-> tok.owner,
     frame |-> frame, infit |-> infit, rem |-> rem, want |-> tok.want]
WNewline(tok, frame, infit, rem) ==
    [k |-> "nl", id |-> 0, n |-> tok.width, indent |-> tok.indent, owner |-> tok.owner,
     frame |-> frame, infit |-> infit, rem |-> rem, want |-> tok.want]

\* ---------------------------------------------------------------------
\* Renderer (R is the record of the renderer fields of Printer, the sink
\* behind them, and the Result of the call in progress: ret = 0 is Ok(()),
\* ret = n is the Err the sink returned from its n-th write.  raised and
\* late are history: the first error the sink returned during the current
\* operation, and the number of writes made after it in that operation.)

Ok == 0

RState == [renderer |-> renderer, remaining |-> remaining,
           render_stack |-> render_stack, pending_indent |-> pending_indent,
           sink |-> sink, ret |-> Ok, raised |-> Ok, late |-> 0]

\* Render::write_str: the write reaches the sink or the sink's error comes back
write_str(R, w) ==
    LET n == R.sink.calls + 1
        late == IF R.raised # Ok THEN R.late + 1 ELSE R.late
    IN IF R.sink.fail_at > 0 /\ n >= R.sink.fail_at
       THEN [R EXCEPT !.sink.calls = n, !.ret = n, !.late = late,
                      !.raised = IF @ = Ok THEN n ELSE @]
       ELSE [R EXCEPT !.sink.calls = n, !.ret = Ok, !.late = late,
                      !.renderer = Append(@, w)]

\* Render::write_spaces (the provided method: write_str of n spaces)
write_spaces(R, w) == write_str(R, w)

\* the `?` operator: the callee returned Err
is_err(R) == R.ret # Ok

\* some group being rendered had a measured width <= remaining when its
\* rendering started
InFit(stack) ==
    \E i \in 1 .. Len(stack) : ~stack[i].pruned /\ stack[i].width <= stack[i].rem0

\* render_text without `self.remaining = self.remaining.saturating_sub(width)`
render_text_keeps_remaining(R, tok) ==
    LET R1 == IF R.pending_indent > 0
              THEN write_spaces(R, WIndent(R.pending_indent)) ELSE R
        R2 == write_str([R1 EXCEPT !.pending_indent = 0], WText(tok))
    IN IF is_err(R1) THEN R1 ELSE R2

\* render_text without `self.renderer.write_spaces(self.pending_indent)`
render_text_drops_indent(R, tok) ==
    LET R2 == write_str([R EXCEPT !.pending_indent = 0], WText(tok))
    IN IF is_err(R2) THEN R2
       ELSE [R2 EXCEPT !.remaining = saturating_sub(@, tok.width)]

\* render_text with `write_spaces(..)` not followed by `?`
render_text_no_try(R, tok) ==
    LET R1 == IF R.pending_indent > 0
              THEN write_spaces(R, WIndent(R.pending_indent)) ELSE R
        R2 == write_str([R1 EXCEPT !.pending_indent = 0], WText(tok))
    IN IF is_err(R2) THEN R2
       ELSE [R2 EXCEPT !.remaining = saturating_sub(@, tok.width)]

render_text(R, tok) ==
    LET R1 == IF R.pending_indent > 0
              THEN write_spaces(R, WIndent(R.pending_indent)) ELSE R
        R2 == write_str([R1 EXCEPT !.pending_indent = 0], WText(tok))
    IN IF is_err(R1) THEN R1
       ELSE IF is_err(R2) THEN R2
       ELSE [R2 EXCEPT !.remaining = saturating_sub(@, tok.width)]

\* render_break reading `.first()` instead of `.last()`
top_frame_first(stack) ==
    IF Len(stack) > 0 THEN stack[1] ELSE NoFrame

\* the frame render_break consults
top_frame(stack) ==
    IF Len(stack) > 0 THEN Last(stack) ELSE NoFrame

\* `fits` of render_break
break_fits(frame, width, rem) ==
    IF frame.tag = "Fits" THEN TRUE ELSE ~frame.consistent /\ width <= rem

render_break(R, tok) ==
    LET frame == top_frame(R.render_stack)
        infit == InFit(R.render_stack)
    IN IF break_fits(frame, tok.width, R.remaining)
       THEN LET R1 == write_spaces(R, WSpaces(tok, frame, infit, R.remaining))
            IN IF is_err(R1) THEN R1
               ELSE [R1 EXCEPT !.remaining = saturating_sub(@, tok.width)]
       ELSE LET R1 == write_str(R, WNewline(tok, frame, infit, R.remaining))
            IN IF is_err(R1) THEN R1
               ELSE [R1 EXCEPT !.pending_indent = tok.indent,
                               !.remaining = saturating_sub(line_width, tok.indent)]

\* render_begin comparing with `<` instead of `<=`
begin_frame_strict(width, rem, h) ==
    IF width < rem THEN FitsFrame(h) ELSE BreakFrame(TRUE, h)

\* the frame render_begin pushes
begin_frame(width, rem, h) ==
    IF width <= rem THEN FitsFrame(h) ELSE BreakFrame(TRUE, h)

\* render_end without `self.render_stack.pop()`
render_end_keeps_frame(R) == [R EXCEPT !.ret = Ok]

render_end(R) ==
    [R EXCEPT !.render_stack = IF Len(@) > 0 THEN Front(@) ELSE @,
              !.ret = Ok]

RECURSIVE render_tokens(_, _)
RECURSIVE render_token(_, _)
RECURSIVE render_begin(_, _, _, _)

render_begin(R, group, width, pruned) ==
    render_tokens(
        [R EXCEPT !.render_stack =
            Append(@, begin_frame(width, R.remaining,
                Hist(group.gid, group.cons, pruned, width, R.remaining)))],
        group.tokens)

render_token(R, tok) ==
    CASE tok.k = "Text" -> render_text(R, tok)
      [] tok.k = "Break" -> render_break(R, tok)
      [] tok.k = "Group" ->
           LET R1 == render_begin(R, tok, tok.width, FALSE)
           IN IF is_err(R1) THEN R1 ELSE render_end(R1)

\* the `for (out, width) in group.tokens` loop of render_begin, left by `?`
render_tokens(R, toks) ==
    IF toks = <<>> THEN R
    ELSE LET R1 == render_token(R, Head(toks))
         IN IF is_err(R1) THEN R1 ELSE render_tokens(R1, Tail(toks))

\* ---------------------------------------------------------------------
\* Scanner

\* prune comparing with line_width instead of remaining
prune_cond_line_width(pos, s, rem) == pos - s > line_width

\* the loop condition of prune
prune_cond(pos, s, rem) == pos - s > rem

RECURSIVE prune(_, _, _)
prune(d, R, pos) ==
    IF d # <<>> /\ prune_cond(pos, Head(d).s, R.remaining)
    THEN LET R1 == render_begin(R, Head(d), MAX_WIDTH, TRUE)
         IN IF is_err(R1) THEN [dq |-> Tail(d), r |-> R1]
            ELSE prune(Tail(d), R1, pos)
    ELSE [dq |-> d, r |-> R]

\* push a token on the tokens of the back entry of a deque
push_back_token(d, tok) ==
    [d EXCEPT ![Len(d)].tokens = Append(@, tok)]

\* scan without the `else` branch that renders the token when dq is empty
scan_drops_unbuffered(width, out) ==
    LET pos == position + width
    IN IF dq # <<>>
       THEN LET p == prune(push_back_token(dq, out), RState, pos)
            IN [position |-> pos, dq |-> p.dq, r |-> p.r]
       ELSE [position |-> pos, dq |-> dq, r |-> RState]

scan(width, out) ==
    LET pos == position + width
    IN IF dq # <<>>
       THEN LET p == prune(push_back_token(dq, out), RState, pos)
            IN [position |-> pos, dq |-> p.dq, r |-> p.r]
       ELSE [position |-> pos, dq |-> dq, r |-> render_token(RState, out)]

\* scan_end inserting the closed group in front of its parent's tokens
scan_end_core_front ==
    IF dq # <<>>
    THEN LET grp1 == Last(dq)
             width == position - grp1.s
             rest == Front(dq)
         IN IF rest # <<>>
            THEN [dq |-> [rest EXCEPT ![Len(rest)].tokens =
                              <<GroupTok(grp1, width, Last(rest).gid)>> \o @],
                  r |-> RState]
            ELSE LET R1 == render_begin(RState, grp1, width, FALSE)
                 IN [dq |-> rest, r |-> IF is_err(R1) THEN R1 ELSE render_end(R1)]
    ELSE [dq |-> dq, r |-> render_end(RState)]

\* what scan_end does to dq and the renderer
scan_end_core ==
    IF dq # <<>>
    THEN LET grp1 == Last(dq)
             width == position - grp1.s
             rest == Front(dq)
         IN IF rest # <<>>
            THEN [dq |-> push_back_token(rest, GroupTok(grp1, width, Last(rest).gid)),
                  r |-> RState]
            ELSE LET R1 == render_begin(RState, grp1, width, FALSE)
                 IN [dq |-> rest, r |-> IF is_err(R1) THEN R1 ELSE render_end(R1)]
    ELSE [dq |-> dq, r |-> render_end(RState)]

\* scan_end without `self.indent.pop()`
pop_nothing(v) == v

\* Vec::pop
pop(v) == IF Len(v) > 0 THEN Front(v) ELSE v

\* scan_begin with `self.dq.push_front(..)`
dq_push_front(d, e) == <<e>> \o d

\* VecDeque::push_back
dq_push_back(d, e) == Append(d, e)

\* scan_break adding nothing to its argument
abs_indent_delta_only(top, delta) == delta

\* `self.indent() + indent` of scan_break and scan_begin
abs_indent(top, delta) == top + delta

\* try_into rejecting zero as well
try_into_usize_fails_on_zero(v) == v <= 0

\* `.try_into()` of an isize into usize is an Err
try_into_usize_fails(v) == v < 0

\* the assert of Printer::new without its upper limit
valid_line_width_unlimited(w) == w > 0

\* `line_width > 0 && line_width <= Self::MAX_WIDTH`
valid_line_width(w) == w > 0 /\ w <= MAX_WIDTH

\* history: the document as scanned, never pruned
OpenGid == IF full # <<>> THEN Last(full).gid ELSE 0

full_push_token(tok) ==
    IF full # <<>> THEN push_back_token(full, tok) ELSE full

full_end ==
    IF Len(full) > 1
    THEN push_back_token(Front(full),
                         GroupTok(Last(full), position - Last(full).s, full[Len(full) - 1].gid))
    ELSE full

\* history: sum of the indent deltas of the open groups
RECURSIVE SumSeq(_)
SumSeq(q) == IF q = <<>> THEN 0 ELSE Head(q) + SumSeq(Tail(q))

\* history: the call just made, what it returned, and whether dq held a
\* frame when it was made
Call(op, size, delta, R) ==
    [op |-> op, size |-> size, delta |-> delta,
     ret |-> R.ret, raised |-> R.raised, late |-> R.late,
     buffering |-> dq # <<>>]

NoWrite == [ret |-> Ok, raised |-> Ok, late |-> 0]

SetRenderer(R) ==
    /\ renderer' = R.renderer
    /\ remaining' = R.remaining
    /\ render_stack' = R.render_stack
    /\ pending_indent' = R.pending_indent
    /\ sink' = R.sink

\* ---------------------------------------------------------------------
\* Operations

\* Printer::new(renderer, line_width): W are the widths tried, F the writes
\* from which the sink behind `renderer` may start to fail (0: never)
new(W, F) ==
    /\ line_width \in W
    /\ sink \in [fail_at : F, calls : {0}]
    /\ position = 0
    /\ renderer = <<>>
    /\ render_stack = <<>>
    /\ pending_indent = 0
    /\ nops = 0
    /\ ntexts = 0
    /\ unmatched = 0
    /\ IF valid_line_width(line_width)
       THEN /\ indent = <<0, 0>>
            /\ dq = <<DqEntry(0, 1, TRUE)>>
            /\ remaining = line_width
            /\ status = "running"
            /\ ngroups = 1
            /\ full = <<DqEntry(0, 1, TRUE)>>
            /\ deltas = <<0>>
       ELSE /\ indent = <<>>
            /\ dq = <<>>
            /\ remaining = 0
            /\ status = "panic: line width must be between 1 and 65536"
            /\ ngroups = 0
            /\ full = <<>>
            /\ deltas = <<>>
    /\ last = [Call("new", 0, 0, NoWrite) EXCEPT !.buffering = FALSE]

\* Printer::new(String::new(), line_width)
Init == new(LineWidths \cup BadLineWidths, {0})

scan_text(W, N) ==
    /\ status = "running"
    /\ nops < N
    /\ \E width \in W :
         LET tok == TextTok(ntexts + 1, width, OpenGid)
             res == scan(width, tok)
         IN /\ position' = res.position
            /\ dq' = res.dq
            /\ SetRenderer(res.r)
            /\ full' = full_push_token(tok)
            /\ last' = Call("scan_text", width, 0, res.r)
    /\ ntexts' = ntexts + 1
    /\ nops' = nops + 1
    /\ UNCHANGED <<line_width, indent, status, ngroups, unmatched, deltas>>

scan_break(S, D, N) ==
    /\ status = "running"
    /\ nops < N
    /\ nops' = nops + 1
    /\ \E size \in S, delta \in D :
         IF indent = <<>>
         THEN /\ status' = "panic: unwrap on None"
              /\ last' = Call("scan_break", size, delta, NoWrite)
              /\ UNCHANGED <<line_width, position, indent, dq, renderer, remaining,
                             render_stack, pending_indent, sink, ngroups, ntexts,
                             unmatched, full, deltas>>
         ELSE IF try_into_usize_fails(abs_indent(Last(indent), delta))
         THEN /\ status' = "panic: indent must >= 0"
              /\ last' = Call("scan_break", size, delta, NoWrite)
              /\ UNCHANGED <<line_width, position, indent, dq, renderer, remaining,
                             render_stack, pending_indent, sink, ngroups, ntexts,
                             unmatched, full, deltas>>
         ELSE LET tok == BreakTok(abs_indent(Last(indent), delta), size, OpenGid,
                                  SumSeq(deltas) + delta)
                  res == scan(size, tok)
              IN /\ position' = res.position
                 /\ dq' = res.dq
                 /\ SetRenderer(res.r)
                 /\ full' = full_push_token(tok)
                 /\ last' = Call("scan_break", size, delta, res.r)
                 /\ UNCHANGED <<line_width, indent, status, ngroups, ntexts,
                                unmatched, deltas>>

\* helper.rs passes `consistent`; scan_begin of core.rs has no such parameter,
\* so the flag reaches no field of the printer (it is kept as history only).
scan_begin(D, C, N) ==
    /\ status = "running"
    /\ nops < N
    /\ nops' = nops + 1
    /\ \E delta \in D, consistent \in C :
         /\ last' = Call("scan_begin", 0, delta, NoWrite)
         /\ IF indent = <<>>
            THEN /\ status' = "panic: unwrap on None"
                 /\ UNCHANGED <<line_width, position, indent, dq, renderer, remaining,
                                render_stack, pending_indent, sink, ngroups, ntexts,
                                unmatched, full, deltas>>
            ELSE /\ indent' = Append(indent, abs_indent(Last(indent), delta))
                 /\ dq' = dq_push_back(dq, DqEntry(position, ngroups + 1, consistent))
                 /\ full' = Append(full, DqEntry(position, ngroups + 1, consistent))
                 /\ deltas' = Append(deltas, delta)
                 /\ ngroups' = ngroups + 1
                 /\ UNCHANGED <<line_width, position, renderer, remaining, render_stack,
                                pending_indent, sink, status, ntexts, unmatched>>

scan_end(N) ==
    /\ status = "running"
    /\ nops < N
    /\ nops' = nops + 1
    /\ indent' = pop(indent)
    /\ LET res == scan_end_core
       IN /\ dq' = res.dq
          /\ SetRenderer(res.r)
          /\ last' = Call("scan_end", 0, 0, res.r)
    /\ unmatched' = IF Len(full) <= 1 THEN unmatched + 1 ELSE unmatched
    /\ full' = IF Len(full) <= 1 THEN <<>> ELSE full_end
    /\ deltas' = IF Len(full) <= 1 THEN <<>> ELSE Front(deltas)
    /\ UNCHANGED <<line_width, position, status, ngroups, ntexts>>

\* finish: `self.scan_end()?` and then the assert on dq
finish ==
    /\ status = "running"
    /\ indent' = pop(indent)
    /\ LET res == scan_end_core
       IN /\ dq' = res.dq
          /\ SetRenderer(res.r)
          /\ last' = Call("finish", 0, 0, res.r)
          /\ status' = IF is_err(res.r) THEN "error"
                       ELSE IF res.dq = <<>> THEN "done"
                       ELSE "panic: unclosed group"
    /\ UNCHANGED <<line_width, position, nops, ngroups, ntexts, unmatched, full, deltas>>

ScanText == scan_text(TextWidths, MaxOps)
ScanBreak == scan_break(BreakSizes, Deltas, MaxOps)
ScanBegin == scan_begin(Deltas, BOOLEAN, MaxOps)
ScanEnd == scan_end(MaxOps)
Finish == finish

Next == ScanText \/ ScanBreak \/ ScanBegin \/ ScanEnd \/ Finish

Spec == Init /\ [][Next]_vars

DeepText == scan_text(DeepTextWidths, MaxDeepOps)
DeepBreak == scan_break(DeepBreakSizes, DeepBreakDeltas, MaxDeepOps)
DeepBegin == scan_begin(DeepBeginDeltas, DeepConsistent, MaxDeepOps)
DeepEnd == scan_end(MaxDeepOps)
DeepFinish == finish

NextDeep == DeepText \/ DeepBreak \/ DeepBegin \/ DeepEnd \/ DeepFinish

SpecDeep == Init /\ [][NextDeep]_vars

\* Printer::new(Io(writer), line_width), the writer failing from some write on
InitIo == new(LineWidths, 0 .. MaxFailAt)

IoText == scan_text(DeepTextWidths, MaxIoOps)
IoBreak == scan_break(DeepBreakSizes, DeepBreakDeltas, MaxIoOps)
IoBegin == scan_begin(DeepBeginDeltas, DeepConsistent, MaxIoOps)
IoEnd == scan_end(MaxIoOps)
IoFinish == finish

NextIo == IoText \/ IoBreak \/ IoBegin \/ IoEnd \/ IoFinish

SpecIo == InitIo /\ [][NextIo]_vars

\* ---------------------------------------------------------------------
\* Vocabulary of the properties

Panicked == status \notin {"running", "done"}

\* no scan_end without its scan_begin so far
WellFormed == unmatched = 0 /\ ~Panicked

\* finish() returned after a sequence in which every scan_begin was closed
FinishedBalanced == status = "done" /\ unmatched = 0 /\ Len(full) = 1

IsBreakWrite(e) == e.k \in {"spaces", "nl"}

\* the group of the break is the group of the frame it was rendered under
UnderOwnFrame(e) == e.owner # 0 /\ e.frame.gid = e.owner

\* the frame says its group did not fit
DidNotFit(f) == f.pruned \/ f.width > f.rem0

\* ids of the texts written, in the order written
TextsOf(out) ==
    LET t == SelectSeq(out, LAMBDA e : e.k = "text")
    IN [i \in 1 .. Len(t) |-> t[i].id]

\* length of the current line after each write
EndCol(out) ==
    LET c[i \in 0 .. Len(out)] ==
            IF i = 0 THEN 0
            ELSE IF out[i].k = "nl" THEN 0 ELSE c[i - 1] + out[i].n
    IN c

\* number of the line each write is on (a newline begins the next line)
LineNo(out) ==
    LET l[i \in 0 .. Len(out)] ==
            IF i = 0 THEN 0
            ELSE IF out[i].k = "nl" THEN l[i - 1] + 1 ELSE l[i - 1]
    IN l

\* the indent not yet written on the line of write i: the indent of the
\* newline that began the line, until a text is written on it
PendingAt(out, i) ==
    LET nls == {m \in 1 .. (i - 1) : out[m].k = "nl"}
    IN IF nls = {} THEN 0
       ELSE LET m == CHOOSE x \in nls : \A y \in nls : y <= x
            IN IF \E t \in (m + 1) .. (i - 1) : out[t].k = "text"
               THEN 0 ELSE out[m].indent

\* sum of the sizes of the writes of kind k strictly between i and j
RECURSIVE SumBetween(_, _, _, _)
SumBetween(out, i, j, k) ==
    IF i + 1 >= j THEN 0
    ELSE (IF out[i + 1].k = k THEN out[i + 1].n ELSE 0) + SumBetween(out, i + 1, j, k)

\* text j is the next text written after write i
NextText(out, i, j) ==
    /\ i < j
    /\ out[j].k = "text"
    /\ \A m \in (i + 1) .. (j - 1) : out[m].k # "text"

\* the string written: texts by identity, runs of spaces merged
RECURSIVE Chars(_)
Chars(out) ==
    IF out = <<>> THEN <<>>
    ELSE LET e == Head(out)
             rest == Chars(Tail(out))
         IN CASE e.k = "text" -> <<[c |-> "text", v |-> e.id]>> \o rest
              [] e.k = "nl" -> <<[c |-> "nl", v |-> 0]>> \o rest
              [] OTHER ->
                   IF e.n = 0 THEN rest
                   ELSE IF rest # <<>> /\ Head(rest).c = "sp"
                        THEN <<[c |-> "sp", v |-> e.n + Head(rest).v]>> \o Tail(rest)
                        ELSE <<[c |-> "sp", v |-> e.n]>> \o rest

\* the offline printer of C2: the whole document is buffered, every group is
\* rendered with its full measured width
Offline ==
    render_end(render_begin(
        [renderer |-> <<>>, remaining |-> line_width,
         render_stack |-> <<>>, pending_indent |-> 0,
         sink |-> [fail_at |-> 0, calls |-> 0],
         ret |-> Ok, raised |-> Ok, late |-> 0],
        full[1], position - full[1].s, FALSE)).renderer

\* ---------------------------------------------------------------------
\* C1: text preservation and ordering.  In every state of a well-formed
\* sequence the texts written are, in order and without repetition, the
\* first texts scanned; after finish() of a balanced sequence they are all
\* the texts scanned.
C1_TextPreservation ==
    WellFormed =>
        LET t == TextsOf(renderer)
        IN /\ Len(t) <= ntexts
           /\ \A i \in 1 .. Len(t) : t[i] = i
           /\ FinishedBalanced => Len(t) = ntexts

\* a balanced run that finished, in which a group was pruned, a nested group
\* was rendered and at least two texts were written
C1_Witness ==
    /\ FinishedBalanced
    /\ ntexts >= 2
    /\ Len(TextsOf(renderer)) = ntexts
    /\ ngroups >= 2
    /\ \E i \in 1 .. Len(renderer) : renderer[i].k = "nl" /\ renderer[i].frame.pruned

\* C2: streaming equals offline.  After finish() of a balanced sequence the
\* string written equals the string the offline printer writes for the same
\* document.
C2_StreamingEqualsOffline ==
    FinishedBalanced => Chars(renderer) = Chars(Offline)

C4_FitOptimality ==
    \A i \in 1 .. Len(renderer) :
        (IsBreakWrite(renderer[i]) /\ renderer[i].infit) => renderer[i].k = "spaces"

\* after a newline, a group opened by scan_begin fits and its direct break is
\* written as one space
C4_Witness ==
    \E i, j \in 1 .. Len(renderer) :
        /\ i < j
        /\ renderer[i].k = "nl"
        /\ renderer[j].k = "spaces"
        /\ renderer[j].n >= 1
        /\ renderer[j].infit
        /\ UnderOwnFrame(renderer[j])
        /\ renderer[j].owner > 1
        /\ renderer[j].frame.tag = "Fits"

\* C5: consistency.  Every direct break of a group opened with
\* consistent = true that did not fit (pruned, or measured wider than
\* remaining) is written as a newline.
C5_Consistency ==
    \A i \in 1 .. Len(renderer) :
        LET e == renderer[i]
        IN (/\ IsBreakWrite(e)
            /\ UnderOwnFrame(e)
            /\ e.owner > 1
            /\ e.frame.cons
            /\ DidNotFit(e.frame)) => e.k = "nl"

\* C6: greedy flow.  Every direct break of a group opened with
\* consistent = false that did not fit is written as spaces iff its size is
\* <= remaining when it is rendered.
C6_GreedyInconsistent ==
    \A i \in 1 .. Len(renderer) :
        LET e == renderer[i]
        IN (/\ IsBreakWrite(e)
            /\ UnderOwnFrame(e)
            /\ e.owner > 1
            /\ ~e.frame.cons
            /\ DidNotFit(e.frame)) => (e.k = "spaces" <=> e.n <= e.rem)

\* C7 (as claimed): after a newline with indent k the next text written is
\* preceded on its line by exactly k spaces.
C7_IndentExact ==
    WellFormed =>
        LET col == EndCol(renderer)
        IN \A i, j \in 1 .. Len(renderer) :
             (renderer[i].k = "nl" /\ NextText(renderer, i, j)) =>
               col[j - 1] = renderer[i].indent

\* C7 (amended): the first text of a line begun by a newline with indent k is
\* preceded by exactly k spaces of indent, plus the spaces of the breaks
\* written horizontally between that newline and the text.
C7_IndentPlusSpaces ==
    WellFormed =>
        LET col == EndCol(renderer)
        IN \A i, j \in 1 .. Len(renderer) :
             (/\ renderer[i].k = "nl"
              /\ NextText(renderer, i, j)
              /\ \A m \in (i + 1) .. (j - 1) : renderer[m].k # "nl") =>
               /\ col[j - 1] = renderer[i].indent + SumBetween(renderer, i, j, "spaces")
               /\ SumBetween(renderer, i, j, "indent") = renderer[i].indent

\* a newline with indent >= 1, then a break written as a space, then the
\* indent and the text
C7_Witness ==
    /\ WellFormed
    /\ \E i \in 1 .. Len(renderer) :
         /\ i + 3 <= Len(renderer)
         /\ renderer[i].k = "nl"
         /\ renderer[i].indent >= 1
         /\ renderer[i + 1].k = "spaces"
         /\ renderer[i + 1].n >= 1
         /\ renderer[i + 2].k = "indent"
         /\ renderer[i + 3].k = "text"

\* C8: a hard break (size MAX_WIDTH) is always written as a newline, under a
\* frame in Break mode.
C8_HardBreak ==
    \A i \in 1 .. Len(renderer) :
        LET e == renderer[i]
        IN (IsBreakWrite(e) /\ e.n = MAX_WIDTH) =>
             (e.k = "nl" /\ e.frame.tag = "Break")

\* C9: finish() returns the sink only when no group opened by scan_begin is
\* still open.
C9_FinishDetectsUnclosed ==
    status = "done" => (Len(full) <= 1 /\ dq = <<>>)

\* C10: a scan_end without its scan_begin fails; the run does not go on.
C10_UnmatchedEndFails ==
    unmatched > 0 => status = "panic: unmatched end"

\* ---------------------------------------------------------------------
\* Error handling

\* the step just taken is a call of `op` (finish does not count in nops)
IsCall(op) == last'.op = op /\ nops' = nops + 1

\* C11: a scan_break(size, delta) made while the indent stack has a top
\* panics exactly when top + delta < 0, and then position, dq, remaining and
\* the output are as before; otherwise it is accepted and advances position
\* by size, also for delta < 0; scan_begin accepts every delta.
C11_NegativeIndentRejected ==
    [][/\ (IsCall("scan_break") /\ indent # <<>>) =>
            /\ (status' = "panic: indent must >= 0") <=> (Last(indent) + last'.delta < 0)
            /\ (status' # "running") <=> (Last(indent) + last'.delta < 0)
            /\ status' # "running" =>
                   UNCHANGED <<position, dq, remaining, renderer, indent>>
            /\ status' = "running" => position' = position + last'.size
       /\ (IsCall("scan_begin") /\ indent # <<>>) =>
            /\ status' = "running"
            /\ indent' = Append(indent, Last(indent) + last'.delta)
      ]_vars

\* a break panicked below a group opened with a negative delta, after a
\* break with a total of 0 had been accepted in it
C11_Witness ==
    /\ status = "panic: indent must >= 0"
    /\ last.op = "scan_break"
    /\ Last(indent) < 0
    /\ full # <<>>
    /\ \E i \in 1 .. Len(Last(full).tokens) :
         Last(full).tokens[i].k = "Break" /\ Last(full).tokens[i].indent = 0

\* C12: when a write to the sink fails during a scan operation or finish(),
\* the operation returns the error of that write and writes nothing after
\* it (a failed finish() gives no sink back); an operation none of whose
\* writes failed returns Ok.
C12_SinkErrorsPropagate ==
    /\ last.raised # Ok => (last.ret = last.raised /\ last.late = 0)
    /\ last.raised = Ok => last.ret = Ok
    /\ (last.op = "finish" /\ last.raised # Ok) => status = "error"
    /\ status = "error" => (last.op = "finish" /\ last.raised # Ok)

\* the first failing write of the sink happened in the last operation, which
\* had at least one more text to write after it
C12_Witness ==
    /\ last.raised # Ok
    /\ last.ret = last.raised
    /\ sink.calls = sink.fail_at
    /\ dq = <<>>
    /\ Len(TextsOf(renderer)) + 2 <= ntexts

\* C13: Printer::new succeeds iff 1 <= line_width <= 65536 and panics
\* otherwise; right after a successful construction the outermost group is
\* open (one frame in dq, started at position 0), remaining = line_width,
\* pending_indent = 0 and nothing has been written.
C13_ConstructionValidatesWidth ==
    /\ (status = "panic: line width must be between 1 and 65536")
           <=> ~(1 <= line_width /\ line_width <= 65536)
    /\ last.op = "new" =>
           (status = "running" <=> (1 <= line_width /\ line_width <= 65536))
    /\ (last.op = "new" /\ status = "running") =>
           /\ Len(dq) = 1 /\ dq[1].s = 0 /\ dq[1].tokens = <<>>
           /\ indent = <<0, 0>>
           /\ position = 0
           /\ remaining = line_width
           /\ pending_indent = 0
           /\ render_stack = <<>>
           /\ renderer = <<>> /\ sink.calls = 0

\* a printer was constructed with the largest width accepted
C13_Witness ==
    /\ last.op = "new"
    /\ status = "running"
    /\ line_width = 65536
    /\ remaining = 65536
    /\ Len(dq) = 1

\* the width just above the largest one was rejected
C13_WitnessRejected ==
    /\ last.op = "new"
    /\ line_width = 65537
    /\ status # "running"

\* ---------------------------------------------------------------------
\* Pruning and the scan deque

\* the frames pushed so far that can still be seen: those on render_stack
\* and those under which a break was written
SeenFrames ==
    {render_stack[i] : i \in 1 .. Len(render_stack)}
        \cup {renderer[i].frame : i \in {j \in 1 .. Len(renderer) : IsBreakWrite(renderer[j])}}

\* C14: every frame that prune pushes for a group popped from the front of
\* dq is a Break frame, never Fits, for every line_width in 1..MAX_WIDTH.
C14_PrunedNeverFits ==
    \A f \in SeenFrames : f.pruned => f.tag = "Break"

\* C15: after every operation every frame still in dq starts at most
\* `remaining` before position, and remaining <= line_width, so no more
\* than line_width columns of content are buffered.
C15_BoundedLookahead ==
    /\ remaining <= line_width
    /\ \A i \in 1 .. Len(dq) :
         /\ position - dq[i].s <= remaining
         /\ position - dq[i].s <= line_width

\* after a prune, the front frame of dq holds tokens that fill what is left
\* of the line exactly
C15_Witness ==
    /\ status = "running"
    /\ render_stack # <<>>
    /\ dq # <<>>
    /\ dq[1].tokens # <<>>
    /\ remaining >= 1
    /\ position - dq[1].s = remaining

\* ---------------------------------------------------------------------
\* Indentation

\* the break tokens of a token list, nested ones included
RECURSIVE BreakToks(_)
BreakToks(toks) ==
    IF toks = <<>> THEN {}
    ELSE LET t == Head(toks)
         IN (CASE t.k = "Break" -> {t}
               [] t.k = "Group" -> BreakToks(t.tokens)
               [] OTHER -> {})
            \cup BreakToks(Tail(toks))

\* the first write after write i that starts or ends a line's content
\* (0: none yet)
NextLineStart(out, i) ==
    LET c == {j \in (i + 1) .. Len(out) : out[j].k \in {"text", "indent", "nl"}}
    IN IF c = {} THEN 0 ELSE CHOOSE j \in c : \A m \in c : j <= m

\* C16: the indent stored in a break equals the sum of the indent deltas of
\* the groups open at its scan_break plus its own delta (`want`), whether
\* the break is still buffered or was rendered; the newline it produces
\* makes exactly that indent pending, and that many spaces are written
\* before the next text.
C16_BreakIndentFrozen ==
    /\ \A i \in 1 .. Len(dq) : \A t \in BreakToks(dq[i].tokens) : t.indent = t.want
    /\ \A i \in 1 .. Len(renderer) :
         IsBreakWrite(renderer[i]) => renderer[i].indent = renderer[i].want
    /\ \A i \in 1 .. Len(renderer) :
         renderer[i].k = "nl" =>
            LET j == NextLineStart(renderer, i)
            IN IF j = 0 THEN pending_indent = renderer[i].want
               ELSE /\ renderer[j].k = "indent" => renderer[j].n = renderer[i].want
                    /\ renderer[j].k = "text" => renderer[i].want = 0

\* a break scanned in a nested group with a total indent of 2 or more, a
\* group opened and closed after it in the same group, then the newline and
\* the indent written
C16_Witness ==
    \E g \in 1 .. Len(full) : \E a, b \in 1 .. Len(full[g].tokens) :
       /\ a < b
       /\ full[g].tokens[a].k = "Break"
       /\ full[g].tokens[a].want >= 2
       /\ full[g].tokens[b].k = "Group"
       /\ \E i \in 1 .. (Len(renderer) - 1) :
            /\ renderer[i].k = "nl"
            /\ renderer[i].owner = full[g].gid
            /\ renderer[i].want >= 2
            /\ renderer[i + 1].k = "indent"
            /\ renderer[i + 1].n = renderer[i].want

\* C17: as long as no scan_end was unmatched, the indent stack is one deeper
\* than the number of open groups (the outermost one included) and its
\* bottom element is 0; open groups are the Len(full) groups of the history,
\* one fewer once finish() has closed the innermost one.
C17_IndentStackTracksNesting ==
    /\ (unmatched = 0 /\ status \in {"running", "panic: indent must >= 0"}) =>
           (Len(indent) = Len(full) + 1 /\ indent[1] = 0)
    /\ (unmatched = 0 /\ last.op = "finish") =>
           (Len(indent) = (Len(full) - 1) + 1 /\ indent[1] = 0)

\* three groups are open, one of them already pruned, and an earlier group
\* was closed
C17_Witness ==
    /\ status = "running"
    /\ unmatched = 0
    /\ Len(full) = 3
    /\ Len(dq) < 3
    /\ ngroups > 3
    /\ Len(indent) = 4

\* C18: the start positions of the frames of dq never decrease from front
\* to back, so the front frame spans the most columns.
C18_DequeOrdered ==
    /\ \A i, j \in 1 .. Len(dq) : i < j => dq[i].s <= dq[j].s
    /\ \A i \in 1 .. Len(dq) : position - dq[i].s <= position - dq[1].s

\* after a prune, two frames with different start positions are buffered
C18_Witness ==
    /\ status = "running"
    /\ render_stack # <<>>
    /\ Len(dq) >= 2
    /\ dq[1].s < dq[2].s
    /\ dq[2].s < position

\* ---------------------------------------------------------------------
\* Groups and frames

\* the open groups are split between render_stack (outer) and dq (inner)
OpenGroupsSplit ==
    /\ Len(dq) + Len(render_stack) = Len(full)
    /\ \A i \in 1 .. Len(full) :
         IF i <= Len(render_stack)
         THEN render_stack[i].gid = full[i].gid
         ELSE i - Len(render_stack) <= Len(dq)
              /\ dq[i - Len(render_stack)].gid = full[i].gid

\* finish() returned Ok and left nothing open
FinishedClean == dq = <<>> /\ render_stack = <<>> /\ indent = <<0>>

\* C19: after every operation of a run with no unmatched scan_end,
\* Len(dq) + Len(render_stack) is the number of open groups, render_stack
\* holding the outer ones and dq the inner ones; after a successful finish()
\* dq and render_stack are empty and the indent stack is <<0>>.
C19_OpenGroupsSplit ==
    /\ (unmatched = 0 /\ status = "running") => OpenGroupsSplit
    /\ (unmatched = 0 /\ status = "done") => FinishedClean

\* C20: in a run with no unmatched scan_end, every break is written under
\* the frame of the group it was scanned in as a direct child: frame.gid is
\* the break's owner, whether that group was pruned, rendered at its
\* scan_end or rendered as a nested token.
C20_BreakUnderOwnFrame ==
    unmatched = 0 =>
       \A i \in 1 .. Len(renderer) :
          IsBreakWrite(renderer[i]) =>
             /\ renderer[i].owner # 0
             /\ renderer[i].frame.gid = renderer[i].owner

\* a break of a nested group that was rendered as a token, and after it a
\* break of its pruned parent, each under its own frame
C20_Witness ==
    /\ unmatched = 0
    /\ \E i, j \in 1 .. Len(renderer) :
         /\ i < j
         /\ IsBreakWrite(renderer[i]) /\ IsBreakWrite(renderer[j])
         /\ renderer[i].owner > renderer[j].owner
         /\ UnderOwnFrame(renderer[i]) /\ ~renderer[i].frame.pruned
         /\ UnderOwnFrame(renderer[j]) /\ renderer[j].frame.pruned

\* ---------------------------------------------------------------------
\* Buffered content

\* the texts and breaks of a token list in scan order, nested ones included
RECURSIVE LeafToks(_)
LeafToks(toks) ==
    IF toks = <<>> THEN <<>>
    ELSE LET t == Head(toks)
         IN (IF t.k = "Group" THEN LeafToks(t.tokens) ELSE <<t>>)
            \o LeafToks(Tail(toks))

\* the texts and breaks held by the frames of a deque, front to back
RECURSIVE LeavesOf(_)
LeavesOf(d) ==
    IF d = <<>> THEN <<>> ELSE LeafToks(Head(d).tokens) \o LeavesOf(Tail(d))

\* what identifies a directive: kind, text identity, width, stored indent
KeyOfTok(t) == [k |-> t.k, id |-> t.id, n |-> t.width, indent |-> t.indent]
KeyOfWrite(e) ==
    [k |-> IF e.k = "text" THEN "Text" ELSE "Break", id |-> e.id, n |-> e.n,
     indent |-> e.indent]

KeysOfToks(q) == [i \in 1 .. Len(q) |-> KeyOfTok(q[i])]

\* the directives written so far (the indent written before a text belongs
\* to the newline that made it pending)
WrittenKeys ==
    LET w == SelectSeq(renderer, LAMBDA e : e.k # "indent")
    IN [i \in 1 .. Len(w) |-> KeyOfWrite(w[i])]

RECURSIVE SumWidths(_)
SumWidths(q) == IF q = <<>> THEN 0 ELSE Head(q).n + SumWidths(Tail(q))

\* no write to the sink has failed
NoSinkError == sink.fail_at = 0 \/ sink.calls < sink.fail_at

\* a printer exists (the construction did not panic)
Constructed == status # "panic: line width must be between 1 and 65536"

\* columns left on the line being written, the pending indent counted
ColumnBudget ==
    saturating_sub(line_width, EndCol(renderer)[Len(renderer)] + pending_indent)

\* C21: as long as no write failed, the directives scanned are, in scan
\* order, those written to the sink followed by those held in dq (so all
\* that was scanned before the front frame of dq started is written);
\* position minus the start of the front frame is the width of what dq
\* holds, and remaining is the column budget after what was written; a
\* scan_text or accepted scan_break made while dq is empty leaves dq empty
\* and its directive is the last write when the call returns.
C21_BufferedIsDeque ==
    (NoSinkError /\ Constructed) =>
       /\ LET ids == TextsOf(renderer)
                     \o SelectSeq([i \in 1 .. Len(LeavesOf(dq)) |-> LeavesOf(dq)[i].id],
                                  LAMBDA x : x # 0)
          IN ids = [i \in 1 .. ntexts |-> i]
       /\ unmatched = 0 => KeysOfToks(LeavesOf(full)) = WrittenKeys \o KeysOfToks(LeavesOf(dq))
       /\ dq # <<>> => position - dq[1].s = SumWidths(KeysOfToks(LeavesOf(dq)))
       /\ remaining = ColumnBudget
       /\ (status = "running" /\ ~last.buffering /\ last.op = "scan_text") =>
             /\ dq = <<>>
             /\ renderer # <<>>
             /\ Last(renderer).k = "text" /\ Last(renderer).id = ntexts
       /\ (status = "running" /\ ~last.buffering /\ last.op = "scan_break") =>
             /\ dq = <<>>
             /\ renderer # <<>>
             /\ IsBreakWrite(Last(renderer)) /\ Last(renderer).n = last.size

\* the outermost group was pruned and a nested group is buffered behind
\* what was written; before that a text was scanned while dq was empty
C21_Witness ==
    /\ status = "running"
    /\ unmatched = 0
    /\ render_stack # <<>>
    /\ dq # <<>>
    /\ Len(LeavesOf(dq)) >= 1
    /\ Len(WrittenKeys) >= 2
    /\ remaining >= 1
    /\ remaining < line_width

\* a text scanned while dq was empty is the last write
C21_WitnessUnbuffered ==
    /\ status = "running"
    /\ unmatched = 0
    /\ ~last.buffering
    /\ last.op = "scan_text"
    /\ dq = <<>>
    /\ Last(renderer).id = ntexts

====
